---- MODULE Spec2Model ----
(***************************************************************************)
(* HyperGraphRAG: the graph store (hypergraphrag/neo4j_manager.py), the    *)
(* chunker (hypergraphrag/text_processor.py) and the data model            *)
(* (hypergraphrag/models.py) as state machines.                            *)
(*                                                                         *)
(* A node of the store is a property map: a function from property keys    *)
(* to values. A property that was never set, or was set to null, is absent *)
(* from the map, as in Neo4j. Every session.run is one auto-commit         *)
(* statement; datetime() is the statement's clock, read from `now`.        *)
(***************************************************************************)
EXTENDS Integers, Sequences, FiniteSets, TLC

VARIABLES
    db,             \* the Neo4j database: entity, hyperedge and chunk nodes, relationships, indexes
    pre,            \* the database as it was when the last store call began
    now,            \* the database clock, one tick per store call
    lastCall,       \* the store call that returned last: its name, arguments and return value
    text,           \* chunk_text: the text argument
    chunk_size,     \* chunk_text: the chunk_size argument
    chunk_overlap,  \* chunk_text: the chunk_overlap argument
    start,          \* chunk_text: the local `start`
    chunk_id,       \* chunk_text: the local `chunk_id`
    chunks,         \* chunk_text: the local `chunks`
    results,        \* the chunk lists returned by the chunk_text calls so far
    pc,             \* chunk_text: "idle" between calls, "loop" inside the while loop
    hset            \* a Python set of Hyperedge values, in insertion order

storeVars == <<db, pre, now, lastCall>>
chunkVars == <<text, chunk_size, chunk_overlap, start, chunk_id, chunks, results, pc>>
vars == <<db, pre, now, lastCall, text, chunk_size, chunk_overlap, start, chunk_id, chunks,
          results, pc, hset>>

(***************************************************************************)
(* Values                                                                  *)
(***************************************************************************)
\* Python None, Cypher null.
NULL == "NULL"

SeqToSet(s) == {s[i] : i \in 1..Len(s)}

Min(a, b) == IF a <= b THEN a ELSE b

RECURSIVE FoldLeft(_, _, _)
\* f(...f(f(acc, s[1]), s[2])..., s[n]): a loop, or an UNWIND, over the list s. Each
\* step is computed before the next one begins, as a loop does.
FoldLeft(f(_, _), acc, s) ==
    IF s = <<>> THEN acc
    ELSE LET step == f(acc, Head(s))
         IN  IF step = step THEN FoldLeft(f, step, Tail(s)) ELSE acc

\* dict.get(key, default)
DictGet(d, key, default) == IF key \in DOMAIN d THEN d[key] ELSE default

\* A node property read: null when the node has no such property.
Prop(node, key) == IF key \in DOMAIN node THEN node[key] ELSE NULL

\* SET node.key = value for a value that is not null.
SetVal(node, key, value) ==
    [k \in DOMAIN node \cup {key} |-> IF k = key THEN value ELSE node[k]]

\* SET node.key = value for a string or null: setting null removes the property.
SetProp(node, key, value) ==
    IF value = NULL
    THEN [k \in DOMAIN node \ {key} |-> node[k]]
    ELSE SetVal(node, key, value)

\* COALESCE(a, b)
Coalesce(a, b) == IF a # NULL THEN a ELSE b

\* Python metadata values: None, the empty dict, a dict with one entry.
EMPTY_DICT == "dict()"
ONE_DICT == "dict(k=v)"

\* json.dumps(value, ensure_ascii=False)
JsonDumps(value) ==
    CASE value = NULL -> "null"
      [] value = EMPTY_DICT -> "{}"
      [] value = ONE_DICT -> "{\"k\": \"v\"}"

\* json.loads(string)
JsonLoads(string) ==
    CASE string = "null" -> NULL
      [] string = "{}" -> EMPTY_DICT
      [] string = "{\"k\": \"v\"}" -> ONE_DICT

\* isinstance(value, dict)
IsDict(value) == value \in {EMPTY_DICT, ONE_DICT}

\* Python `value or {}`: None and the empty dict are falsy.
OrEmptyDict(value) == IF value \in {NULL, EMPTY_DICT} THEN EMPTY_DICT ELSE value

(***************************************************************************)
(* The store                                                               *)
(***************************************************************************)
AllIndexes ==
    {"entity_name_index", "hyperedge_id_index", "chunk_id_index",
     "chunk_embedding_index", "entity_embedding_index"}

\* _initialize_schema: each CREATE ... IF NOT EXISTS adds the index it names.
InitializeSchema(d) == [d EXCEPT !.indexes = @ \cup AllIndexes]

NoData == [entities |-> <<>>, hyperedges |-> <<>>, rels |-> <<>>, chunks |-> <<>>,
           indexes |-> {}]

\* Neo4jManager.__init__ on a database that holds nothing yet.
EmptyDb == InitializeSchema(NoData)

\* A bug the property map of a pattern guards against: a match by label alone.
MatchAnyValue(nodes, key, value) == {i \in 1..Len(nodes) : key \in DOMAIN nodes[i]}

\* The positions of the nodes of `nodes` whose property `key` equals `value`.
Match(nodes, key, value) ==
    {i \in 1..Len(nodes) : key \in DOMAIN nodes[i] /\ nodes[i][key] = value}

\* A bug ON CREATE guards against: the creation properties set on a matched node too.
MergeNodeReinitialises(nodes, key, value, extra, t) ==
    IF Match(nodes, key, value) # {}
    THEN [i \in 1..Len(nodes) |->
            IF i \in Match(nodes, key, value)
            THEN [k \in DOMAIN nodes[i] \cup DOMAIN extra |->
                     IF k \in DOMAIN extra THEN extra[k] ELSE nodes[i][k]]
            ELSE nodes[i]]
    ELSE Append(nodes, SetVal(SetVal(extra, key, value), "created_at", t))

\* MERGE (n {key: value}) ON CREATE SET n.created_at = datetime() [, extra]
MergeNode(nodes, key, value, extra, t) ==
    IF Match(nodes, key, value) # {} THEN nodes
    ELSE Append(nodes, SetVal(SetVal(extra, key, value), "created_at", t))

\* A bug COALESCE guards against: the description is overwritten, also by null.
SetEntityOverwritesDescription(node, type, description, vector, t) ==
    SetVal(
        SetProp(SetProp(SetProp(node, "type", type), "description", description),
                "embedding", vector),
        "updated_at", t)

\* The SET of create_or_update_entity and batch_create_entities on one node.
SetEntity(node, type, description, vector, t) ==
    SetVal(
        SetProp(
            SetProp(
                SetProp(node, "type", type),
                "description", Coalesce(description, Prop(node, "description"))),
            "embedding", vector),
        "updated_at", t)

\* One row of the entity upsert: MERGE by name, then SET on every matched node.
UpsertEntity(entities, name, type, description, vector, t) ==
    LET merged == MergeNode(entities, "name", name, [chunk_ids |-> <<>>], t)
        hit == Match(merged, "name", name)
    IN  [i \in 1..Len(merged) |->
            IF i \in hit THEN SetEntity(merged[i], type, description, vector, t)
            ELSE merged[i]]

\* create_or_update_entity(entity_name, entity_type, description, vector)
CreateOrUpdateEntity(d, entity_name, entity_type, description, vector, t) ==
    [d EXCEPT !.entities = UpsertEntity(@, entity_name, entity_type, description, vector, t)]

\* The SET of create_hyperedge and batch_create_hyperedges on one node.
SetHyperedge(node, content, metadata, t) ==
    SetVal(SetProp(SetProp(node, "content", content), "metadata", metadata), "updated_at", t)

\* One row of the hyperedge upsert: MERGE by id, then SET on every matched node.
UpsertHyperedge(hyperedges, hyperedge_id, content, metadata, t) ==
    LET merged == MergeNode(hyperedges, "id", hyperedge_id, <<>>, t)
        hit == Match(merged, "id", hyperedge_id)
    IN  [i \in 1..Len(merged) |->
            IF i \in hit THEN SetHyperedge(merged[i], content, metadata, t)
            ELSE merged[i]]

\* A bug MERGE guards against: CREATE, whether or not the relationship exists.
MergeRelAlwaysCreates(rels, e, h) == Append(rels, [e |-> e, h |-> h])

\* MERGE (e)-[:PARTICIPATES_IN]->(h) for one matched pair of nodes.
MergeRel(rels, e, h) ==
    IF \E r \in 1..Len(rels) : rels[r].e = e /\ rels[r].h = h THEN rels
    ELSE Append(rels, [e |-> e, h |-> h])

RECURSIVE MergeRels(_, _)
\* MERGE for every row of `pairs`, a set of <<entity node, hyperedge node>>.
MergeRels(rels, pairs) ==
    IF pairs = {} THEN rels
    ELSE LET p == CHOOSE q \in pairs : \A o \in pairs :
                      q[1] < o[1] \/ (q[1] = o[1] /\ q[2] <= o[2])
         IN  MergeRels(MergeRel(rels, p[1], p[2]), pairs \ {p})

\* A bug the two MATCH clauses guard against: the whole pattern under MERGE, which
\* creates the entity it does not find.
ConnectEntityMergesPattern(d, entity_name, hyperedge_id) ==
    LET made == [d EXCEPT !.entities = MergeNode(@, "name", entity_name, <<>>, 0)]
    IN  [made EXCEPT !.rels = MergeRels(@,
            Match(made.entities, "name", entity_name)
                \X Match(made.hyperedges, "id", hyperedge_id))]

\* MATCH (e:Entity {name}) MATCH (h:Hyperedge {id}) MERGE (e)-[:PARTICIPATES_IN]->(h)
ConnectEntity(d, entity_name, hyperedge_id) ==
    [d EXCEPT !.rels = MergeRels(@,
        Match(d.entities, "name", entity_name) \X Match(d.hyperedges, "id", hyperedge_id))]

\* The node statement of create_hyperedge.
CreateHyperedgeNode(d, hyperedge_id, content, metadata, t) ==
    [d EXCEPT !.hyperedges =
        UpsertHyperedge(@, hyperedge_id, content, JsonDumps(OrEmptyDict(metadata)), t)]

\* create_hyperedge(hyperedge_id, entity_names, content, metadata)
CreateHyperedge(d, hyperedge_id, entity_names, content, metadata, t) ==
    FoldLeft(LAMBDA acc, entity_name : ConnectEntity(acc, entity_name, hyperedge_id),
             CreateHyperedgeNode(d, hyperedge_id, content, metadata, t),
             entity_names)

\* A bug the CASE guards against: the list replaced by the chunk linked last.
AddChunkIdReplaces(node, chunk) == SetVal(node, "chunk_ids", <<chunk>>)

\* A bug the CASE guards against: the chunk id appended whether listed or not.
AddChunkIdAppendsAlways(node, chunk) ==
    SetVal(node, "chunk_ids", Append(DictGet(node, "chunk_ids", <<>>), chunk))

\* The CASE of link_chunk_to_entities and batch_link_chunks_to_entities.
AddChunkId(node, chunk) ==
    CASE "chunk_ids" \notin DOMAIN node -> SetVal(node, "chunk_ids", <<chunk>>)
      [] chunk \notin SeqToSet(node.chunk_ids) ->
            SetVal(node, "chunk_ids", Append(node.chunk_ids, chunk))
      [] OTHER -> node

\* A bug MATCH guards against: the entity found by MERGE, which creates it when absent.
LinkChunkToEntityMerges(d, chunk, entity_name) ==
    LET merged == IF Match(d.entities, "name", entity_name) = {}
                  THEN Append(d.entities, [name |-> entity_name])
                  ELSE d.entities
    IN  [d EXCEPT !.entities =
            [i \in 1..Len(merged) |->
                IF i \in Match(merged, "name", entity_name)
                THEN AddChunkId(merged[i], chunk) ELSE merged[i]]]

\* MATCH (e:Entity {name: $entity_name}) SET e.chunk_ids = CASE ... END
LinkChunkToEntity(d, chunk, entity_name) ==
    [d EXCEPT !.entities =
        [i \in 1..Len(@) |->
            IF i \in Match(@, "name", entity_name) THEN AddChunkId(@[i], chunk) ELSE @[i]]]

\* link_chunk_to_entities(chunk_id, entity_names)
LinkChunkToEntities(d, chunk, entity_names) ==
    FoldLeft(LAMBDA acc, entity_name : LinkChunkToEntity(acc, chunk, entity_name),
             d, entity_names)

\* batch_create_entities(entities)
BatchCreateEntities(d, entities, t) ==
    IF entities = <<>> THEN d
    ELSE FoldLeft(LAMBDA acc, e :
                      CreateOrUpdateEntity(acc, e.name, e.type,
                          DictGet(e, "description", NULL), DictGet(e, "vector", NULL), t),
                  d, entities)

\* The metadata parameter batch_create_chunks builds for one chunk.
ChunkMetadataParam(c) ==
    IF IsDict(DictGet(c, "metadata", NULL))
    THEN JsonDumps(DictGet(c, "metadata", EMPTY_DICT))
    ELSE DictGet(c, "metadata", "{}")

\* One row of batch_create_chunks: MERGE by id, then SET on every matched node.
UpsertChunk(nodes, c, t) ==
    LET merged == MergeNode(nodes, "id", c.chunk_id, <<>>, t)
        hit == Match(merged, "id", c.chunk_id)
    IN  [i \in 1..Len(merged) |->
            IF i \in hit
            THEN SetVal(
                    SetProp(
                        SetProp(
                            SetProp(merged[i], "content", c.content),
                            "embedding", c.vector),
                        "metadata", ChunkMetadataParam(c)),
                    "updated_at", t)
            ELSE merged[i]]

\* batch_create_chunks(chunks)
BatchCreateChunks(d, cs, t) ==
    IF cs = <<>> THEN d
    ELSE [d EXCEPT !.chunks = FoldLeft(LAMBDA acc, c : UpsertChunk(acc, c, t), @, cs)]

\* batch_link_chunks_to_entities(chunk_entity_links)
BatchLinkChunksToEntities(d, chunk_entity_links) ==
    IF chunk_entity_links = <<>> THEN d
    ELSE FoldLeft(LAMBDA acc, link : LinkChunkToEntities(acc, link.chunk_id, link.entity_names),
                  d, chunk_entity_links)

\* The node statement of batch_create_hyperedges.
BatchCreateHyperedgeNodes(d, hyperedges, t) ==
    [d EXCEPT !.hyperedges =
        FoldLeft(LAMBDA acc, h :
                     UpsertHyperedge(acc, h.hyperedge_id, h.content,
                         JsonDumps(DictGet(h, "metadata", EMPTY_DICT)), t),
                 @, hyperedges)]

\* One link statement of batch_create_hyperedges: UNWIND $entity_names ... MERGE.
BatchConnectHyperedge(d, hyperedge) ==
    FoldLeft(LAMBDA acc, entity_name : ConnectEntity(acc, entity_name, hyperedge.hyperedge_id),
             d, hyperedge.entity_names)

\* batch_create_hyperedges(hyperedges)
BatchCreateHyperedges(d, hyperedges, t) ==
    IF hyperedges = <<>> THEN d
    ELSE FoldLeft(BatchConnectHyperedge, BatchCreateHyperedgeNodes(d, hyperedges, t),
                  hyperedges)

\* A bug the last line of reset_db guards against: the schema dropped and not rebuilt.
ResetDbLeavesSchemaDropped(d) == [NoData EXCEPT !.indexes = d.indexes \ AllIndexes]

\* reset_db(): DETACH DELETE every node, drop the five indexes, rebuild the schema.
ResetDb(d) == InitializeSchema([NoData EXCEPT !.indexes = d.indexes \ AllIndexes])

(***************************************************************************)
(* Reads                                                                   *)
(***************************************************************************)
\* [f(s[1]), ..., f(s[n])]
MapSeq(f(_), s) == [i \in 1..Len(s) |-> f(s[i])]

\* RETURN DISTINCT: the rows of s, each kept where it comes first.
Distinct(s) ==
    LET keep == {i \in 1..Len(s) : \A j \in 1..(i - 1) : s[j] # s[i]}
    IN  [k \in 1..Cardinality(keep) |->
            s[CHOOSE i \in keep : Cardinality({j \in keep : j <= i}) = k]]

\* LIMIT n
Limit(s, n) == SubSeq(s, 1, Min(Len(s), n))

\* get_entities_by_hyperedge(hyperedge_id)
GetEntitiesByHyperedge(d, hyperedge_id) ==
    LET hit == SelectSeq(d.rels, LAMBDA r : r.h \in Match(d.hyperedges, "id", hyperedge_id))
    IN  MapSeq(LAMBDA r : [name |-> Prop(d.entities[r.e], "name"),
                           type |-> Prop(d.entities[r.e], "type"),
                           description |-> Prop(d.entities[r.e], "description")],
               hit)

\* get_hyperedges_by_entity(entity_name, limit)
GetHyperedgesByEntity(d, entity_name, limit) ==
    LET hit == SelectSeq(d.rels, LAMBDA r : r.e \in Match(d.entities, "name", entity_name))
    IN  Limit(MapSeq(LAMBDA r : [hyperedge_id |-> Prop(d.hyperedges[r.h], "id"),
                                 content |-> Prop(d.hyperedges[r.h], "content"),
                                 metadata |-> Prop(d.hyperedges[r.h], "metadata")],
                     hit),
              limit)

\* get_chunks_by_entity(entity_name): result.single() is the one matched record, if any.
GetChunksByEntity(d, entity_name) ==
    LET hit == Match(d.entities, "name", entity_name)
    IN  IF hit = {} THEN <<>>
        ELSE LET e == d.entities[CHOOSE i \in hit : \A j \in hit : i <= j]
             IN  IF "chunk_ids" \in DOMAIN e THEN e.chunk_ids ELSE <<>>

\* get_entities_by_chunk(chunk_id)
GetEntitiesByChunk(d, chunk) ==
    MapSeq(LAMBDA e : e.name,
           SelectSeq(d.entities,
                     LAMBDA e : "chunk_ids" \in DOMAIN e /\ chunk \in SeqToSet(e.chunk_ids)))

(***************************************************************************)
(* find_related_entities: the paths of the MATCH are trails, no            *)
(* relationship twice, over PARTICIPATES_IN taken in either direction. A   *)
(* trail is kept as the node it ends at and the relationships it used.     *)
(***************************************************************************)
\* The trails one relationship longer than a trail of T.
ExtendTrails(d, T) ==
    {[from |-> tr.from,
      at |-> IF tr.at[1] = "E" THEN <<"H", d.rels[r].h>> ELSE <<"E", d.rels[r].e>>,
      used |-> tr.used \cup {r}] :
        <<tr, r>> \in {<<tr, r>> \in T \X (1..Len(d.rels)) :
                        /\ r \notin tr.used
                        /\ IF tr.at[1] = "E" THEN d.rels[r].e = tr.at[2]
                           ELSE d.rels[r].h = tr.at[2]}}

RECURSIVE TrailsOfLength(_, _, _)
\* The trails of exactly k relationships from the entity nodes named entity_name.
TrailsOfLength(d, entity_name, k) ==
    IF k = 0
    THEN {[from |-> i, at |-> <<"E", i>>, used |-> {}] : i \in Match(d.entities, "name", entity_name)}
    ELSE ExtendTrails(d, TrailsOfLength(d, entity_name, k - 1))

\* A bug the depth bound guards against: a max_depth of 0 taken for "not given", so
\* that the default depth 2 applies (max_depth or 2).
RelatedPairsDefaultDepth(d, entity_name, max_depth) ==
    UNION {{<<k, tr.at[2]>> : tr \in {x \in TrailsOfLength(d, entity_name, k) :
                                          x.at[1] = "E" /\ x.at[2] # x.from}} :
           k \in 1..(IF max_depth = 0 THEN 2 ELSE max_depth)}

\* The (distance, end node) pairs of the MATCH ... WHERE start <> end.
RelatedPairs(d, entity_name, max_depth) ==
    UNION {{<<k, tr.at[2]>> : tr \in {x \in TrailsOfLength(d, entity_name, k) :
                                          x.at[1] = "E" /\ x.at[2] # x.from}} :
           k \in 1..max_depth}

\* ORDER BY distance leaves the order of equal distances to the database: `tie`
\* is the order it takes, by ascending or by descending node.
Before(p, q, tie) ==
    \/ p[1] < q[1]
    \/ p[1] = q[1] /\ (IF tie = "asc" THEN p[2] <= q[2] ELSE p[2] >= q[2])

\* A bug ORDER BY guards against: the rows in the order of the nodes matched, so that
\* LIMIT cuts by age and not by distance.
OrderByNode(pairs, tie) ==
    LET rank == [p \in pairs |->
                    Cardinality({q \in pairs : q[2] < p[2] \/ (q[2] = p[2] /\ q[1] <= p[1])})]
    IN  [k \in 1..Cardinality(pairs) |-> CHOOSE p \in pairs : rank[p] = k]

\* ORDER BY distance: each pair at the place its rank gives it.
OrderByDistance(pairs, tie) ==
    LET rank == [p \in pairs |-> Cardinality({q \in pairs : Before(q, p, tie)})]
    IN  [k \in 1..Cardinality(pairs) |-> CHOOSE p \in pairs : rank[p] = k]

\* LIMIT 50 of find_related_entities
ResultCap == 50

\* find_related_entities(entity_name, max_depth)
FindRelatedEntities(d, entity_name, max_depth, tie) ==
    Limit(Distinct(MapSeq(LAMBDA p : [name |-> Prop(d.entities[p[2]], "name"),
                                      type |-> Prop(d.entities[p[2]], "type"),
                                      description |-> Prop(d.entities[p[2]], "description"),
                                      distance |-> p[1]],
                          OrderByDistance(RelatedPairs(d, entity_name, max_depth), tie))),
          ResultCap)

(***************************************************************************)
(* search_vectors: db.index.vector.queryNodes returns the k indexed nodes  *)
(* nearest to the query vector, nearest first. Embeddings are opaque: a    *)
(* vector is nearest to itself.                                            *)
(***************************************************************************)
Similarity(a, b) == IF a = b THEN 2 ELSE 1

\* A bug the index choice guards against: the two index names taken for each other.
IndexNameSwapped(target_node) ==
    IF target_node = "Chunk" THEN "entity_embedding_index" ELSE "chunk_embedding_index"

IndexName(target_node) ==
    IF target_node = "Chunk" THEN "chunk_embedding_index" ELSE "entity_embedding_index"

\* The nodes an index covers.
IndexedNodes(d, index_name) ==
    SelectSeq(IF index_name = "chunk_embedding_index" THEN d.chunks ELSE d.entities,
              LAMBDA n : "embedding" \in DOMAIN n)

RECURSIVE NearestFirst(_, _)
NearestFirst(nodes, query_vector) ==
    IF nodes = <<>> THEN <<>>
    ELSE LET best == CHOOSE i \in 1..Len(nodes) : \A j \in 1..Len(nodes) :
                        \/ Similarity(nodes[i].embedding, query_vector)
                              > Similarity(nodes[j].embedding, query_vector)
                        \/ /\ Similarity(nodes[i].embedding, query_vector)
                                = Similarity(nodes[j].embedding, query_vector)
                           /\ i <= j
         IN  <<nodes[best]>> \o
             NearestFirst(SubSeq(nodes, 1, best - 1) \o SubSeq(nodes, best + 1, Len(nodes)),
                          query_vector)

\* One result row: the node's properties, metadata parsed when it is a string, and the score.
SearchRow(node, query_vector) ==
    SetVal(IF "metadata" \in DOMAIN node
           THEN SetProp(node, "metadata", JsonLoads(node.metadata))
           ELSE node,
           "score", Similarity(node.embedding, query_vector))

\* search_vectors raises when the index it names does not exist.
SearchVectorsRaises(d, target_node) == IndexName(target_node) \notin d.indexes

\* search_vectors(query_vector, top_k, target_node)
SearchVectors(d, query_vector, top_k, target_node) ==
    MapSeq(LAMBDA n : SearchRow(n, query_vector),
           Limit(NearestFirst(IndexedNodes(d, IndexName(target_node)), query_vector), top_k))

\* vector_dimension of Neo4jManager.__init__
VectorDimension == 384

\* check_connection(): the dimensions of the vector indexes.
CheckConnection(d) ==
    [connected |-> TRUE,
     indexes |-> [n \in d.indexes \cap {"chunk_embedding_index", "entity_embedding_index"}
                    |-> VectorDimension],
     errors |-> <<>>]

(***************************************************************************)
(* The store's calls, and the arguments the model draws for them           *)
(***************************************************************************)
\* How many store calls a behaviour makes.
MaxOps == 3

\* (entity_name, entity_type, description, vector)
EntityArgs ==
    {<<n, p[1], p[2], p[3]>> :
        n \in {"A", "B"},
        p \in {<<"PERSON", "d1", "v1">>, <<"ORGANIZATION", "d2", NULL>>,
               <<"PERSON", NULL, "v2">>}}

EntityBatches ==
    LET a1 == [name |-> "A", type |-> "PERSON", description |-> "d1", vector |-> "v1"]
        a2 == [name |-> "A", type |-> "ORGANIZATION", description |-> NULL, vector |-> NULL]
        b1 == [name |-> "B", type |-> "ORGANIZATION"]
        c1 == [name |-> "C", type |-> "PERSON", description |-> "d2"]
    IN  {<<>>, <<a1, b1>>, <<a1, a2>>, <<a2, a1>>, <<b1, c1>>}

\* (hyperedge_id, entity_names, content, metadata)
HyperedgeArgs ==
    {<<"h1", <<"A", "B">>, "x", NULL>>,
     <<"h2", <<"B", "A">>, "x", ONE_DICT>>,
     <<"h1", <<"A", "C">>, "y", EMPTY_DICT>>}

HyperedgeBatches ==
    LET ab == [hyperedge_id |-> "h1", entity_names |-> <<"A", "B">>, content |-> "x"]
        ba == [hyperedge_id |-> "h2", entity_names |-> <<"B", "A">>, content |-> "x",
               metadata |-> NULL]
        bc == [hyperedge_id |-> "h1", entity_names |-> <<"B", "C">>, content |-> "y",
               metadata |-> ONE_DICT]
    IN  {<<>>, <<ab>>, <<ab, ba>>, <<ba, bc>>, <<ab, bc>>}

\* (chunk_id, entity_names)
LinkArgs ==
    {<<"c1", <<"A">>>>, <<"c2", <<"A", "B">>>>, <<"c1", <<"C", "B">>>>, <<"c1", <<"A", "A">>>>}

LinkBatches ==
    LET l1 == [chunk_id |-> "c1", entity_names |-> <<"A", "B">>]
        l2 == [chunk_id |-> "c1", entity_names |-> <<"A">>]
        l3 == [chunk_id |-> "c2", entity_names |-> <<"C", "A">>]
    IN  {<<>>, <<l1>>, <<l2, l2>>, <<l3, l2>>}

ChunkBatches ==
    LET k1 == [chunk_id |-> "c1", content |-> "t1", vector |-> "v1", metadata |-> ONE_DICT]
        k1b == [chunk_id |-> "c1", content |-> "t2", vector |-> "v2"]
        k2 == [chunk_id |-> "c2", content |-> "t2", vector |-> NULL, metadata |-> NULL]
    IN  {<<>>, <<k1>>, <<k1b>>, <<k1, k2>>, <<k2, k1b>>}

\* A call that returned: what was called, with what, and what came back.
Returned(op, args, ret) == [op |-> op, args |-> args, ret |-> ret, raised |-> FALSE]

\* A call that raised.
Raised(op, args) == [op |-> op, args |-> args, ret |-> NULL, raised |-> TRUE]

NoCall == [op |-> "none", args |-> <<>>, ret |-> NULL, raised |-> FALSE]

\* A write call: the database changes, the clock ticks, the call returns None.
Write(op, args, d) ==
    /\ db' = d
    /\ pre' = db
    /\ now' = now + 1
    /\ lastCall' = Returned(op, args, NULL)
    /\ UNCHANGED <<chunkVars, hset>>

\* A bug MATCH guards against: a read written with MERGE, which creates a node for
\* the name or id it looks for.
ReadMerges(op, args, ret) ==
    /\ db' = IF args = <<>> THEN db
             ELSE [db EXCEPT !.entities = MergeNode(@, "name", args[1], <<>>, now + 1)]
    /\ pre' = db
    /\ now' = now + 1
    /\ lastCall' = Returned(op, args, ret)
    /\ UNCHANGED <<chunkVars, hset>>

\* A read call: the database is left alone, the clock ticks, the call returns `ret`.
Read(op, args, ret) ==
    /\ UNCHANGED db
    /\ pre' = db
    /\ now' = now + 1
    /\ lastCall' = Returned(op, args, ret)
    /\ UNCHANGED <<chunkVars, hset>>

CreateOrUpdateEntityCall ==
    \E a \in EntityArgs :
        /\ now < MaxOps
        /\ Write("create_or_update_entity", a,
                 CreateOrUpdateEntity(db, a[1], a[2], a[3], a[4], now + 1))

CreateHyperedgeCall ==
    \E a \in HyperedgeArgs :
        /\ now < MaxOps
        /\ Write("create_hyperedge", a, CreateHyperedge(db, a[1], a[2], a[3], a[4], now + 1))

LinkChunkToEntitiesCall ==
    \E a \in LinkArgs :
        /\ now < MaxOps
        /\ Write("link_chunk_to_entities", a, LinkChunkToEntities(db, a[1], a[2]))

BatchCreateEntitiesCall ==
    \E a \in EntityBatches :
        /\ now < MaxOps
        /\ Write("batch_create_entities", a, BatchCreateEntities(db, a, now + 1))

BatchCreateChunksCall ==
    \E a \in ChunkBatches :
        /\ now < MaxOps
        /\ Write("batch_create_chunks", a, BatchCreateChunks(db, a, now + 1))

BatchLinkChunksToEntitiesCall ==
    \E a \in LinkBatches :
        /\ now < MaxOps
        /\ Write("batch_link_chunks_to_entities", a, BatchLinkChunksToEntities(db, a))

BatchCreateHyperedgesCall ==
    \E a \in HyperedgeBatches :
        /\ now < MaxOps
        /\ Write("batch_create_hyperedges", a, BatchCreateHyperedges(db, a, now + 1))

ResetDbCall ==
    /\ now < MaxOps
    /\ Write("reset_db", <<>>, ResetDb(db))

GetEntitiesByHyperedgeCall(ids) ==
    \E h \in ids :
        /\ now < MaxOps
        /\ Read("get_entities_by_hyperedge", <<h>>, GetEntitiesByHyperedge(db, h))

\* limit defaults to 100
DefaultLimit == 100

GetHyperedgesByEntityCall(names) ==
    \E n \in names, limit \in {1, DefaultLimit} :
        /\ now < MaxOps
        /\ Read("get_hyperedges_by_entity", <<n, limit>>,
                GetHyperedgesByEntity(db, n, limit))

GetChunksByEntityCall(names) ==
    \E n \in names :
        /\ now < MaxOps
        /\ Read("get_chunks_by_entity", <<n>>, GetChunksByEntity(db, n))

GetEntitiesByChunkCall(ids) ==
    \E c \in ids :
        /\ now < MaxOps
        /\ Read("get_entities_by_chunk", <<c>>, GetEntitiesByChunk(db, c))

TieOrders == {"asc", "desc"}

FindRelatedEntitiesCall(names, depths) ==
    \E n \in names, max_depth \in depths, tie \in TieOrders :
        /\ now < MaxOps
        /\ Read("find_related_entities", <<n, max_depth>>,
                FindRelatedEntities(db, n, max_depth, tie))

SearchVectorsCall(ks) ==
    \E query_vector \in {"v1"}, top_k \in ks, target_node \in {"Chunk", "Entity"} :
        /\ now < MaxOps
        /\ UNCHANGED db
        /\ pre' = db
        /\ now' = now + 1
        /\ lastCall' =
              IF SearchVectorsRaises(db, target_node)
              THEN Raised("search_vectors", <<query_vector, top_k, target_node>>)
              ELSE Returned("search_vectors", <<query_vector, top_k, target_node>>,
                            SearchVectors(db, query_vector, top_k, target_node))
        /\ UNCHANGED <<chunkVars, hset>>

CheckConnectionCall ==
    /\ now < MaxOps
    /\ Read("check_connection", <<>>, CheckConnection(db))

IdleChunker ==
    /\ text = <<>> /\ chunk_size = 1 /\ chunk_overlap = 0
    /\ start = 0 /\ chunk_id = 0 /\ chunks = <<>> /\ results = <<>> /\ pc = "idle"

\* The state after Neo4jManager() on a fresh database.
Init ==
    /\ db = EmptyDb
    /\ pre = EmptyDb
    /\ now = 0
    /\ lastCall = NoCall
    /\ IdleChunker
    /\ hset = <<>>

Next ==
    \/ CreateOrUpdateEntityCall
    \/ CreateHyperedgeCall
    \/ LinkChunkToEntitiesCall
    \/ BatchCreateEntitiesCall
    \/ BatchCreateChunksCall
    \/ BatchLinkChunksToEntitiesCall
    \/ BatchCreateHyperedgesCall
    \/ ResetDbCall
    \/ GetEntitiesByHyperedgeCall({"h1", "h3"})
    \/ GetHyperedgesByEntityCall({"A", "D"})
    \/ GetChunksByEntityCall({"A", "D"})
    \/ GetEntitiesByChunkCall({"c1", "c3"})
    \/ FindRelatedEntitiesCall({"A", "D"}, {0, 2})
    \/ SearchVectorsCall({1})
    \/ CheckConnectionCall

Spec == Init /\ [][Next]_vars

(***************************************************************************)
(* Claims about the store's writes                                         *)
(***************************************************************************)
\* The write a call record names, executed on d at time t.
Apply(d, call, t) ==
    CASE call.op = "create_or_update_entity" ->
            CreateOrUpdateEntity(d, call.args[1], call.args[2], call.args[3], call.args[4], t)
      [] call.op = "create_hyperedge" ->
            CreateHyperedge(d, call.args[1], call.args[2], call.args[3], call.args[4], t)
      [] call.op = "link_chunk_to_entities" ->
            LinkChunkToEntities(d, call.args[1], call.args[2])
      [] call.op = "batch_create_entities" -> BatchCreateEntities(d, call.args, t)
      [] call.op = "batch_create_chunks" -> BatchCreateChunks(d, call.args, t)
      [] call.op = "batch_link_chunks_to_entities" -> BatchLinkChunksToEntities(d, call.args)
      [] call.op = "batch_create_hyperedges" -> BatchCreateHyperedges(d, call.args, t)
      [] call.op = "reset_db" -> ResetDb(d)
      [] OTHER -> d

\* The calls C1 names, with the arguments the model draws.
GraphWrites ==
    {[op |-> "create_or_update_entity", args |-> a] : a \in EntityArgs}
    \cup {[op |-> "create_hyperedge", args |-> a] : a \in HyperedgeArgs}
    \cup {[op |-> "link_chunk_to_entities", args |-> a] : a \in LinkArgs}
    \cup {[op |-> "batch_create_entities", args |-> a] : a \in EntityBatches}
    \cup {[op |-> "batch_link_chunks_to_entities", args |-> a] : a \in LinkBatches}
    \cup {[op |-> "batch_create_hyperedges", args |-> a] : a \in HyperedgeBatches}

\* The graph a database holds, whatever the order its nodes were created in and
\* whatever their timestamps: entities, hyperedges, participation links.
GraphOf(d) ==
    [entities |-> {[name |-> Prop(e, "name"), type |-> Prop(e, "type"),
                    description |-> Prop(e, "description"),
                    embedding |-> Prop(e, "embedding"),
                    chunk_ids |-> DictGet(e, "chunk_ids", <<>>)] : e \in SeqToSet(d.entities)},
     hyperedges |-> {[id |-> Prop(h, "id"), content |-> Prop(h, "content"),
                      metadata |-> Prop(h, "metadata")] : h \in SeqToSet(d.hyperedges)},
     links |-> {<<d.entities[r.e].name, d.hyperedges[r.h].id>> : r \in SeqToSet(d.rels)}]

\* C1: a store write and any other store write leave the same graph whichever of the
\* two runs first: the write that has just run followed by w, against w followed by it.
C1_OrderIndependent ==
    lastCall.op \in {w.op : w \in GraphWrites} =>
        \A w \in GraphWrites :
            GraphOf(Apply(db, w, now + 1))
                = GraphOf(Apply(Apply(pre, w, now), lastCall, now + 1))

BatchOps ==
    {"batch_create_entities", "batch_create_chunks", "batch_create_hyperedges",
     "batch_link_chunks_to_entities"}

WithoutUpdatedAt(nodes) ==
    [i \in 1..Len(nodes) |-> [k \in DOMAIN nodes[i] \ {"updated_at"} |-> nodes[i][k]]]

\* The database with every updated_at timestamp dropped.
IgnoringUpdatedAt(d) ==
    [d EXCEPT !.entities = WithoutUpdatedAt(@), !.hyperedges = WithoutUpdatedAt(@),
              !.chunks = WithoutUpdatedAt(@)]

\* C2: when a batch write has just run, running it again with the same arguments leaves
\* the database as it is, but for updated_at.
C2_RetrySafe ==
    lastCall.op \in BatchOps =>
        IgnoringUpdatedAt(Apply(db, lastCall, now + 1)) = IgnoringUpdatedAt(db)

\* A batch_create_hyperedges call has just created links, and running it again would
\* touch the database (its updated_at).
C2_Witness ==
    /\ lastCall.op = "batch_create_hyperedges"
    /\ Len(db.rels) > Len(pre.rels)
    /\ Apply(db, lastCall, now + 1) # db

\* The (name, description) rows of an entity upsert call, in the order they are executed.
UpsertRows(call) ==
    CASE call.op = "create_or_update_entity" ->
            <<[name |-> call.args[1], description |-> call.args[3]]>>
      [] call.op = "batch_create_entities" ->
            MapSeq(LAMBDA e : [name |-> e.name, description |-> DictGet(e, "description", NULL)],
                   call.args)
      [] OTHER -> <<>>

RECURSIVE MergedDescription(_, _, _)
\* The description of the latest row for `name` that supplies one; `prev` when none does.
MergedDescription(rows, name, prev) ==
    IF rows = <<>> THEN prev
    ELSE LET last == rows[Len(rows)]
         IN  IF last.name = name /\ last.description # NULL THEN last.description
             ELSE MergedDescription(SubSeq(rows, 1, Len(rows) - 1), name, prev)

\* The description stored for a name: null when the name is not stored or has none.
StoredDescription(d, name) ==
    IF Match(d.entities, "name", name) = {} THEN NULL
    ELSE Prop(d.entities[CHOOSE i \in Match(d.entities, "name", name) : TRUE], "description")

\* C3: the store never holds two entities of one name, and after an entity upsert, single
\* or batch, each upserted name is stored once, with the description of the latest upsert
\* that supplied one, or the description it had before when none did.
C3_UpsertMergePolicy ==
    /\ \A i, j \in 1..Len(db.entities) :
          db.entities[i].name = db.entities[j].name => i = j
    /\ \A k \in 1..Len(UpsertRows(lastCall)) :
          LET name == UpsertRows(lastCall)[k].name
          IN  /\ Cardinality(Match(db.entities, "name", name)) = 1
              /\ StoredDescription(db, name)
                    = MergedDescription(UpsertRows(lastCall), name, StoredDescription(pre, name))

\* An entity stored with one description has just been upserted with another.
C3_Witness ==
    /\ lastCall.op = "create_or_update_entity"
    /\ lastCall.args[3] # NULL
    /\ StoredDescription(pre, lastCall.args[1]) \notin {NULL, lastCall.args[3]}
    /\ StoredDescription(db, lastCall.args[1]) = lastCall.args[3]

(***************************************************************************)
(* TextProcessor.chunk_text                                                *)
(***************************************************************************)
\* The longest text, the largest chunk_size (and chunk_overlap), the calls per behaviour.
MaxTextLen == 4
MaxChunkSize == 3
MaxCalls == 2

\* A run that never leaves the loop is followed for this many iterations: more than
\* any run that ends takes.
MaxIter == MaxTextLen + 2

\* A text is a sequence of characters: two letters and the blank.
Chars == {"a", "b", " "}
Whitespace == {" "}

RECURSIVE SeqsUpTo(_, _)
\* The sequences over S of length at most n.
SeqsUpTo(S, n) ==
    IF n = 0 THEN {<<>>}
    ELSE SeqsUpTo(S, n - 1) \cup {Append(q, c) : q \in SeqsUpTo(S, n - 1), c \in S}

Texts == SeqsUpTo(Chars, MaxTextLen)

\* A Python slice index, clamped: a negative index counts from the end.
SliceIndex(i, n) ==
    IF i < 0 THEN (IF i + n < 0 THEN 0 ELSE i + n) ELSE Min(i, n)

\* A bug the half-open slice guards against: the character at hi taken too.
PySliceInclusive(s, lo, hi) ==
    LET a == SliceIndex(lo, Len(s))
        b == SliceIndex(hi + 1, Len(s))
    IN  IF a < b THEN SubSeq(s, a + 1, b) ELSE <<>>

\* s[lo:hi]
PySlice(s, lo, hi) ==
    LET a == SliceIndex(lo, Len(s))
        b == SliceIndex(hi, Len(s))
    IN  IF a < b THEN SubSeq(s, a + 1, b) ELSE <<>>

\* A bug strip() guards against: the test `if chunk_text:`, which a blank window passes.
StripKeepsBlanks(s) == s

RECURSIVE Strip(_)
\* str.strip()
Strip(s) ==
    IF s = <<>> THEN s
    ELSE IF Head(s) \in Whitespace THEN Strip(Tail(s))
    ELSE IF s[Len(s)] \in Whitespace THEN Strip(SubSeq(s, 1, Len(s) - 1))
    ELSE s

Digit(n) == <<"0", "1", "2", "3", "4", "5", "6", "7", "8", "9">>[n + 1]

RECURSIVE Digits(_)
Digits(n) == IF n < 10 THEN <<Digit(n)>> ELSE Append(Digits(n \div 10), Digit(n % 10))

\* str(n) of an integer, as the f-string formats it
IntStr(n) == IF n < 0 THEN <<"-">> \o Digits(-n) ELSE Digits(n)

\* hashlib.md5(...).hexdigest(): one digest per string; collisions are not modelled.
Md5(string) == <<"md5", string>>

\* A bug a content hash guards against: an id drawn afresh in every call.
ChunkIdStrPerCall(content, s, e) == <<"call", Len(results), chunk_id>>

\* chunk_id_str = md5(f"{chunk_text}_{start}_{end}")
ChunkIdStr(content, s, e) == Md5(content \o <<"_">> \o IntStr(s) \o <<"_">> \o IntStr(e))

IdleStore ==
    /\ db = EmptyDb /\ pre = EmptyDb /\ now = 0 /\ lastCall = NoCall

\* A caller about to chunk one text with one chunk_size and chunk_overlap.
InitChunk ==
    /\ text \in Texts
    /\ chunk_size \in 1..MaxChunkSize
    /\ chunk_overlap \in 0..MaxChunkSize
    /\ start = 0 /\ chunk_id = 0 /\ chunks = <<>> /\ results = <<>> /\ pc = "idle"
    /\ IdleStore
    /\ hset = <<>>

\* chunk_text is entered: chunks = [], start = 0, chunk_id = 0.
ChunkTextCall ==
    /\ pc = "idle"
    /\ Len(results) < MaxCalls
    /\ chunks' = <<>>
    /\ start' = 0
    /\ chunk_id' = 0
    /\ pc' = "loop"
    /\ UNCHANGED <<text, chunk_size, chunk_overlap, results, storeVars, hset>>

\* A bug the step guards against: the window moved on by the overlap alone
\* (start = start + chunk_overlap), which stands still when there is no overlap.
ChunkTextLoopStepsByOverlap ==
    /\ pc = "loop"
    /\ start < Len(text)
    /\ chunk_id < MaxIter
    /\ LET end == start + chunk_size
           content == PySlice(text, start, end)
       IN  /\ chunks' =
                IF Strip(content) # <<>>
                THEN Append(chunks, [id |-> ChunkIdStr(content, start, end),
                                     content |-> content,
                                     start_idx |-> start,
                                     end_idx |-> end,
                                     chunk_index |-> chunk_id])
                ELSE chunks
           /\ start' = start + chunk_overlap
    /\ chunk_id' = chunk_id + 1
    /\ UNCHANGED <<text, chunk_size, chunk_overlap, results, pc, storeVars, hset>>

\* One iteration of `while start < len(text)`.
ChunkTextLoop ==
    /\ pc = "loop"
    /\ start < Len(text)
    /\ chunk_id < MaxIter
    /\ LET end == start + chunk_size
           content == PySlice(text, start, end)
       IN  /\ chunks' =
                IF Strip(content) # <<>>
                THEN Append(chunks, [id |-> ChunkIdStr(content, start, end),
                                     content |-> content,
                                     start_idx |-> start,
                                     end_idx |-> end,
                                     chunk_index |-> chunk_id])
                ELSE chunks
           /\ start' = end - chunk_overlap
    /\ chunk_id' = chunk_id + 1
    /\ UNCHANGED <<text, chunk_size, chunk_overlap, results, pc, storeVars, hset>>

\* The loop is left and chunk_text returns chunks.
ChunkTextReturn ==
    /\ pc = "loop"
    /\ ~(start < Len(text))
    /\ results' = Append(results, chunks)
    /\ pc' = "idle"
    /\ UNCHANGED <<text, chunk_size, chunk_overlap, start, chunk_id, chunks, storeVars, hset>>

NextChunk == ChunkTextCall \/ ChunkTextLoop \/ ChunkTextReturn

SpecChunk == InitChunk /\ [][NextChunk]_vars

\* The chunks of the calls that returned and of the call that is running.
ChunksSeen == SeqToSet(chunks) \cup UNION {SeqToSet(results[i]) : i \in 1..Len(results)}

\* C9: the calls of chunk_text on one text, chunk_size and chunk_overlap return the same
\* chunks with the same ids, and chunks of equal content and offsets have equal ids.
C9_ChunkingDeterministic ==
    /\ \A i, j \in 1..Len(results) : results[i] = results[j]
    /\ \A c, d \in ChunksSeen :
          (c.content = d.content /\ c.start_idx = d.start_idx /\ c.end_idx = d.end_idx)
              => c.id = d.id

\* chunk_text has returned twice, each time with several chunks.
C9_Witness == Len(results) = 2 /\ Len(results[1]) >= 2 /\ Len(results[2]) >= 2

\* C10: with chunk_overlap >= chunk_size chunk_text fails before it does any work: no
\* loop iteration runs, no chunk is produced, no chunk list is returned.
C10_ConfigErrorBeforeWork ==
    chunk_overlap >= chunk_size => (chunk_id = 0 /\ chunks = <<>> /\ results = <<>>)

(***************************************************************************)
(* models.Hyperedge, and Python sets of Hyperedge values                   *)
(***************************************************************************)
\* How many values a behaviour adds to the set.
MaxSetSize == 3

\* Hyperedge(entity_names=..., content=..., hyperedge_id=..., metadata=...): the fields
\* are type-checked, and the two optional ones default to None.
Hyperedge(entity_names, content, hyperedge_id, metadata) ==
    [entity_names |-> entity_names, content |-> content,
     hyperedge_id |-> hyperedge_id, metadata |-> metadata]

HyperedgeValues ==
    {Hyperedge(n, c, NULL, NULL) :
        n \in {<<"A", "B">>, <<"B", "A">>, <<"A", "C">>, <<"A", "B", "C">>, <<"C", "B", "A">>,
               <<"A">>},
        c \in {"x", "y"}}

\* The order of str values that sorted() uses, on the names of the model.
NameRank(name) == CASE name = "A" -> 1 [] name = "B" -> 2 [] name = "C" -> 3 [] OTHER -> 4

RECURSIVE Sorted(_)
\* sorted(names)
Sorted(names) ==
    IF names = <<>> THEN <<>>
    ELSE LET i == CHOOSE k \in 1..Len(names) :
                    \A j \in 1..Len(names) :
                        NameRank(names[k]) < NameRank(names[j])
                        \/ (NameRank(names[k]) = NameRank(names[j]) /\ k <= j)
         IN  <<names[i]>> \o Sorted(SubSeq(names, 1, i - 1) \o SubSeq(names, i + 1, Len(names)))

\* Hyperedge.__hash__: hash((tuple(sorted(self.entity_names)), self.content)); the
\* hash of a tuple is modelled as the tuple, so unequal tuples never collide.
HyperedgeHash(h) == <<Sorted(h.entity_names), h.content>>

\* Hyperedge defines no __eq__: BaseModel's compares the fields, lists in order.
HyperedgeEq(a, b) ==
    /\ a.entity_names = b.entity_names
    /\ a.content = b.content
    /\ a.hyperedge_id = b.hyperedge_id
    /\ a.metadata = b.metadata

\* set.add(h): h is already a member when a member has its hash and equals it.
SetAdd(members, h) ==
    IF \E i \in 1..Len(members) :
            HyperedgeHash(members[i]) = HyperedgeHash(h) /\ HyperedgeEq(members[i], h)
    THEN members
    ELSE Append(members, h)

InitSet ==
    /\ hset = <<>>
    /\ IdleStore
    /\ IdleChunker

SetAddCall ==
    \E h \in HyperedgeValues :
        /\ Len(hset) < MaxSetSize
        /\ hset' = SetAdd(hset, h)
        /\ UNCHANGED <<storeVars, chunkVars>>

NextSet == SetAddCall

SpecSet == InitSet /\ [][NextSet]_vars

\* C4: a set of Hyperedge values never holds two values with the same content whose
\* entity_names are permutations of each other.
C4_PermutationInvariantIdentity ==
    \A i, j \in 1..Len(hset) :
        (hset[i].content = hset[j].content
            /\ Sorted(hset[i].entity_names) = Sorted(hset[j].entity_names)) => i = j

(***************************************************************************)
(* The read path: the store's reads and query_local, over stores that the  *)
(* write operations built                                                  *)
(***************************************************************************)
\* The largest max_depth / max_hops drawn, and how far a hub outgrows the result cap.
MaxDepth == 4
HubExtra == 1

\* One item of batch_create_entities, of batch_create_hyperedges, of
\* batch_link_chunks_to_entities and of batch_create_chunks.
EntityItem(name, vector) ==
    [name |-> name, type |-> "PERSON", description |-> "d1", vector |-> vector]
HyperedgeItem(id, names, content) ==
    [hyperedge_id |-> id, entity_names |-> names, content |-> content]
LinkItem(chunk, names) == [chunk_id |-> chunk, entity_names |-> names]
ChunkItem(chunk, vector) ==
    [chunk_id |-> chunk, content |-> "t1", vector |-> vector, metadata |-> EMPTY_DICT]

\* The store an ingestion leaves: entities, then hyperedges, then mentions, then chunks.
BuildStore(entities, hyperedges, links, cs) ==
    BatchCreateChunks(
        BatchLinkChunksToEntities(
            BatchCreateHyperedges(BatchCreateEntities(EmptyDb, entities, 1), hyperedges, 2),
            links),
        cs, 3)

Abc == <<EntityItem("A", "v1"), EntityItem("B", "v2"), EntityItem("C", "v2")>>

\* A - h1 - B - h2 - C: B bridges A and C. Chunk c1 mentions A, chunk c2 mentions C.
ChainStore ==
    BuildStore(Abc,
               <<HyperedgeItem("h1", <<"A", "B">>, "x"), HyperedgeItem("h2", <<"B", "C">>, "y")>>,
               <<LinkItem("c1", <<"A">>), LinkItem("c2", <<"C">>)>>,
               <<ChunkItem("c1", "v1"), ChunkItem("c2", "v2")>>)

\* B is one hyperedge from A (h1) and also two (h2, then h3).
DiamondStore ==
    BuildStore(Abc,
               <<HyperedgeItem("h1", <<"A", "B">>, "x"), HyperedgeItem("h2", <<"A", "C">>, "y"),
                 HyperedgeItem("h3", <<"C", "B">>, "x")>>,
               <<LinkItem("c1", <<"A", "B">>)>>,
               <<ChunkItem("c1", "v1")>>)

\* One hyperedge over three entities.
TriadStore ==
    BuildStore(Abc, <<HyperedgeItem("h1", <<"A", "B", "C">>, "x")>>,
               <<LinkItem("c1", <<"B">>)>>, <<ChunkItem("c1", "v2")>>)

\* A graph with embedded entities, and chunks that hold no embedding.
UnembeddedStore ==
    BuildStore(Abc, <<HyperedgeItem("h1", <<"A", "B">>, "x")>>,
               <<LinkItem("c1", <<"A">>)>>, <<ChunkItem("c1", NULL)>>)

HubNames ==
    <<"e01", "e02", "e03", "e04", "e05", "e06", "e07", "e08", "e09", "e10", "e11",
      "e12", "e13", "e14", "e15", "e16", "e17", "e18", "e19", "e20", "e21", "e22",
      "e23", "e24", "e25", "e26", "e27", "e28", "e29", "e30", "e31", "e32", "e33",
      "e34", "e35", "e36", "e37", "e38", "e39", "e40", "e41", "e42", "e43", "e44",
      "e45", "e46", "e47", "e48", "e49", "e50", "e51", "e52", "e53", "e54", "e55",
      "e56", "e57", "e58", "e59", "e60">>

\* A hub: n leaves share hyperedge h2 with "bridge", and "bridge" shares h1 with "seed".
\* The leaves are the oldest nodes, "seed" the youngest.
HubStore(n) ==
    BuildStore(MapSeq(LAMBDA name : EntityItem(name, NULL),
                      SubSeq(HubNames, 1, n) \o <<"bridge", "seed">>),
               <<HyperedgeItem("h1", <<"seed", "bridge">>, "x"),
                 HyperedgeItem("h2", <<"bridge">> \o SubSeq(HubNames, 1, n), "y")>>,
               <<>>, <<>>)

QueryStores ==
    {EmptyDb, ChainStore, DiamondStore, TriadStore, UnembeddedStore}
    \cup {HubStore(n) : n \in (ResultCap - 1)..(ResultCap + HubExtra)}

\* The names a read is called with: the oldest and the youngest entities, and a name
\* that is not stored.
QueryNames(d) ==
    {d.entities[i].name : i \in {j \in 1..Len(d.entities) : j <= 2 \/ j > Len(d.entities) - 2}}
    \cup {"nobody"}

\* s[1] \o s[2] \o ... \o s[n]
Flatten(s) == FoldLeft(LAMBDA acc, x : acc \o x, <<>>, s)

\* The Embedder capability: the vector of a query text.
Embed(query_text) == IF query_text = "q1" THEN "v1" ELSE "v2"

\* QueryResult(**kwargs): query is required, the sequences default to [], the totals to 0.
QueryResult(kwargs) ==
    [query |-> kwargs.query,
     top_chunks |-> DictGet(kwargs, "top_chunks", <<>>),
     hyperedges |-> DictGet(kwargs, "hyperedges", <<>>),
     expanded_chunks |-> DictGet(kwargs, "expanded_chunks", <<>>),
     total_chunks_found |-> DictGet(kwargs, "total_chunks_found", 0),
     total_hyperedges_found |-> DictGet(kwargs, "total_hyperedges_found", 0),
     total_expanded_chunks |-> DictGet(kwargs, "total_expanded_chunks", 0),
     entities_found |-> DictGet(kwargs, "entities_found", <<>>)]

\* query_local, step 2: the seed chunks with their score and the entities they mention.
TopChunks(d, query_text, top_n) ==
    MapSeq(LAMBDA row : [chunk_id |-> Prop(row, "id"),
                         content |-> Prop(row, "content"),
                         score |-> row.score,
                         entities |-> GetEntitiesByChunk(d, Prop(row, "id")),
                         metadata |-> DictGet(row, "metadata", EMPTY_DICT)],
           SearchVectors(d, Embed(query_text), top_n, "Chunk"))

\* query_local, step 3: the entities the traversal reaches from the seed entities.
Expanded(d, seeds, max_hops, tie) ==
    SelectSeq(
        Distinct(Flatten(MapSeq(
            LAMBDA e : MapSeq(LAMBDA row : row.name, FindRelatedEntities(d, e, max_hops, tie)),
            seeds))),
        LAMBDA name : name \notin SeqToSet(seeds))

\* query_local, step 4: the hyperedges of the entities found, one per hyperedge id.
HyperedgesOf(d, names) ==
    MapSeq(LAMBDA id : [hyperedge_id |-> id,
                        entities |-> MapSeq(LAMBDA e : e.name, GetEntitiesByHyperedge(d, id)),
                        content |-> Prop(d.hyperedges[CHOOSE i \in Match(d.hyperedges, "id", id) : TRUE],
                                         "content")],
           Distinct(Flatten(MapSeq(
               LAMBDA e : MapSeq(LAMBDA row : row.hyperedge_id,
                                 GetHyperedgesByEntity(d, e, DefaultLimit)),
               names))))

\* query_local, step 5: the chunks of the expanded entities that are no seed chunks.
ExpandedChunks(d, expanded, seedChunks) ==
    MapSeq(LAMBDA c : [chunk_id |-> c],
           SelectSeq(Distinct(Flatten(MapSeq(LAMBDA e : GetChunksByEntity(d, e), expanded))),
                     LAMBDA c : c \notin seedChunks))

\* query_local(query_text, top_n, max_hops)
QueryLocal(d, query_text, top_n, max_hops, tie) ==
    LET top == TopChunks(d, query_text, top_n)
        seeds == Distinct(Flatten(MapSeq(LAMBDA c : c.entities, top)))
        expanded == Expanded(d, seeds, max_hops, tie)
        found == seeds \o expanded
        hyperedges == HyperedgesOf(d, found)
        more == IF max_hops > 0
                THEN ExpandedChunks(d, expanded, {top[i].chunk_id : i \in 1..Len(top)})
                ELSE <<>>
    IN  QueryResult([query |-> query_text,
                     top_chunks |-> top,
                     hyperedges |-> hyperedges,
                     expanded_chunks |-> more,
                     total_chunks_found |-> Len(top),
                     total_hyperedges_found |-> Len(hyperedges),
                     total_expanded_chunks |-> Len(more),
                     entities_found |-> found])

QueryLocalCall ==
    \E query_text \in {"q1", "q2"}, top_n \in {1, 2}, max_hops \in 0..MaxDepth, tie \in TieOrders :
        /\ now < MaxOps
        /\ UNCHANGED db
        /\ pre' = db
        /\ now' = now + 1
        /\ lastCall' =
              IF SearchVectorsRaises(db, "Chunk")
              THEN Raised("query_local", <<query_text, top_n, max_hops>>)
              ELSE Returned("query_local", <<query_text, top_n, max_hops>>,
                            QueryLocal(db, query_text, top_n, max_hops, tie))
        /\ UNCHANGED <<chunkVars, hset>>

\* A client attached to a database that earlier ingestions filled. No read changes the
\* store, so a behaviour makes one read: the last call of the MaxOps.
InitQuery ==
    /\ db \in QueryStores
    /\ pre = db
    /\ now = MaxOps - 1
    /\ lastCall = NoCall
    /\ IdleChunker
    /\ hset = <<>>

NextQuery ==
    \/ GetEntitiesByHyperedgeCall({"h1", "h9"})
    \/ GetHyperedgesByEntityCall(QueryNames(db))
    \/ GetChunksByEntityCall(QueryNames(db))
    \/ GetEntitiesByChunkCall({"c1", "c9"})
    \/ FindRelatedEntitiesCall(QueryNames(db), 0..MaxDepth)
    \/ SearchVectorsCall({1, 2})
    \/ CheckConnectionCall
    \/ QueryLocalCall

SpecQuery == InitQuery /\ [][NextQuery]_vars

(***************************************************************************)
(* Claims on the read path                                                 *)
(***************************************************************************)
\* The entity nodes that share a hyperedge with a node of W.
SharingHyperedge(d, W) ==
    LET hs == {d.rels[r].h : r \in {x \in 1..Len(d.rels) : d.rels[x].e \in W}}
    IN  {d.rels[r].e : r \in {x \in 1..Len(d.rels) : d.rels[x].h \in hs}}

RECURSIVE WithinHops(_, _, _)
\* The entity nodes at most k hops from the nodes of S, a hop leading from an entity
\* to an entity that shares a hyperedge with it.
WithinHops(d, S, k) ==
    IF k = 0 THEN S
    ELSE LET W == WithinHops(d, S, k - 1) IN W \cup SharingHyperedge(d, W)

\* The fewest hops from S to the node j.
HopCount(d, S, j) ==
    CHOOSE k \in 0..Len(d.entities) :
        j \in WithinHops(d, S, k) /\ \A m \in 0..(k - 1) : j \notin WithinHops(d, S, m)

\* C5: find_related_entities(seed, max_hops) returns every entity other than the seed
\* that is at most max_hops hops from it, a hop leading to an entity that shares a
\* hyperedge, and reports for each its hop count: from A over {A,B} and {B,C} with
\* max_hops = 2, it returns B at 1 and C at 2.
C5_ReachesWithinHops ==
    lastCall.op = "find_related_entities" =>
        LET seed == Match(db.entities, "name", lastCall.args[1])
            ret == lastCall.ret
        IN  {<<ret[i].name, ret[i].distance>> : i \in 1..Len(ret)}
                = {<<db.entities[j].name, HopCount(db, seed, j)>> :
                       j \in WithinHops(db, seed, lastCall.args[2]) \ seed}

\* C6: the list find_related_entities returns is in non-decreasing order of distance
\* and has at most 50 entries, and an entity that matched and is not returned is no
\* nearer than any entity returned.
C6_OrderedAndCapped ==
    lastCall.op = "find_related_entities" =>
        LET ret == lastCall.ret
            returned == {ret[i].name : i \in 1..Len(ret)}
            omitted == {p \in RelatedPairs(db, lastCall.args[1], lastCall.args[2]) :
                           db.entities[p[2]].name \notin returned}
        IN  /\ \A i, j \in 1..Len(ret) : i < j => ret[i].distance <= ret[j].distance
            /\ Len(ret) <= 50
            /\ \A p \in omitted : \A i \in 1..Len(ret) : ret[i].distance <= p[1]

\* A traversal that the cap truncated, with entities at two distances among the returned.
C6_Witness ==
    /\ lastCall.op = "find_related_entities"
    /\ Cardinality(RelatedPairs(db, lastCall.args[1], lastCall.args[2])) > 50
    /\ Len(lastCall.ret) = 50
    /\ lastCall.ret[1].distance < lastCall.ret[50].distance

\* The entity nodes that the chunks of a result's top_chunks mention.
SeedAttached(d, ret) ==
    {j \in 1..Len(d.entities) :
        /\ "chunk_ids" \in DOMAIN d.entities[j]
        /\ \E i \in 1..Len(ret.top_chunks) :
              ret.top_chunks[i].chunk_id \in SeqToSet(d.entities[j].chunk_ids)}

\* C7: with max_hops = 0 the traversal from a seed returns no entity, and query_local
\* returns only entities that its seed chunks mention, only hyperedges that such an
\* entity takes part in, and no expanded chunk.
C7_NoTraversalAtZeroHops ==
    /\ (lastCall.op = "find_related_entities" /\ lastCall.args[2] = 0) => lastCall.ret = <<>>
    /\ (lastCall.op = "query_local" /\ ~lastCall.raised /\ lastCall.args[3] = 0) =>
          LET ret == lastCall.ret
              attached == SeedAttached(db, ret)
          IN  /\ SeqToSet(ret.entities_found) \subseteq {db.entities[j].name : j \in attached}
              /\ {ret.hyperedges[i].hyperedge_id : i \in 1..Len(ret.hyperedges)}
                    \subseteq {db.hyperedges[db.rels[r].h].id :
                                  r \in {x \in 1..Len(db.rels) : db.rels[x].e \in attached}}
              /\ ret.expanded_chunks = <<>>

\* A query with max_hops = 0 that found an entity and a hyperedge, on a store where a
\* traversal would have led on to a further entity.
C7_Witness ==
    /\ lastCall.op = "query_local"
    /\ lastCall.args[3] = 0
    /\ lastCall.ret.entities_found # <<>>
    /\ lastCall.ret.hyperedges # <<>>
    /\ SharingHyperedge(db, SeedAttached(db, lastCall.ret)) \ SeedAttached(db, lastCall.ret) # {}

\* No chunk of the store can be a seed: none holds an embedding.
NoSeedChunk(d) == \A i \in 1..Len(d.chunks) : "embedding" \notin DOMAIN d.chunks[i]

\* C8: a query that finds no seed chunk returns, and does not raise, the QueryResult
\* of the query text with empty top_chunks, hyperedges, expanded_chunks and
\* entities_found and with the three totals 0.
C8_NoSeedWellFormed ==
    (lastCall.op = "query_local" /\ NoSeedChunk(db)) =>
        /\ ~lastCall.raised
        /\ lastCall.ret = [query |-> lastCall.args[1],
                           top_chunks |-> <<>>,
                           hyperedges |-> <<>>,
                           expanded_chunks |-> <<>>,
                           total_chunks_found |-> 0,
                           total_hyperedges_found |-> 0,
                           total_expanded_chunks |-> 0,
                           entities_found |-> <<>>]

\* A query on a store that holds a graph of embedded entities and no embedded chunk.
C8_Witness ==
    /\ lastCall.op = "query_local"
    /\ NoSeedChunk(db)
    /\ db.rels # <<>>
    /\ \E j \in 1..Len(db.entities) : "embedding" \in DOMAIN db.entities[j]

(***************************************************************************)
(* Claims on chunk_text: termination, chunk_index, the windows kept        *)
(***************************************************************************)
\* A call of chunk_text that has begun goes on: the interpreter runs the next
\* iteration, and returns when the loop condition fails.
SpecChunkFair == SpecChunk /\ WF_vars(ChunkTextLoop) /\ WF_vars(ChunkTextReturn)

\* C11: with chunk_overlap < chunk_size the window start strictly increases in every
\* iteration of the loop, and a call that is running returns.
C11_Terminates ==
    /\ [][(pc = "loop" /\ pc' = "loop" /\ chunk_overlap < chunk_size) => start' > start]_vars
    /\ (pc = "loop" /\ chunk_overlap < chunk_size) ~> (pc = "idle")

\* A call with a real overlap below chunk_size has returned after several iterations.
C11_Witness ==
    /\ 0 < chunk_overlap /\ chunk_overlap < chunk_size
    /\ pc = "idle" /\ Len(results) >= 1 /\ chunk_id >= 3

\* C12: the chunk_index of every chunk chunk_text returns is its position in the list
\* returned, counted from 0, also after windows of whitespace were skipped.
C12_ChunkIndexIsPosition ==
    \A r \in 1..Len(results) : \A i \in 1..Len(results[r]) :
        results[r][i].chunk_index = i - 1

\* The starts of the windows chunk_text cuts when chunk_overlap < chunk_size.
WindowStarts ==
    {s \in 0..(Len(text) - 1) : s % (chunk_size - chunk_overlap) = 0}

\* The window holds a character that is no whitespace.
HasInk(content) == \E k \in 1..Len(content) : content[k] \notin Whitespace

\* C13: no chunk returned is blank, the windows that are not blank are exactly the
\* chunks returned, each with its own content and offsets, and the chunks returned
\* are in the order of the text, start_idx strictly increasing.
C13_KeepsInkedWindowsInOrder ==
    \A r \in 1..Len(results) :
        LET ret == results[r]
        IN  /\ \A i \in 1..Len(ret) : HasInk(ret[i].content)
            /\ \A i \in 1..Len(ret) :
                  /\ ret[i].end_idx = ret[i].start_idx + chunk_size
                  /\ ret[i].content = PySlice(text, ret[i].start_idx, ret[i].end_idx)
            /\ \A i, j \in 1..Len(ret) : i < j => ret[i].start_idx < ret[j].start_idx
            /\ text # <<>> =>
                  /\ chunk_overlap < chunk_size
                  /\ {ret[i].start_idx : i \in 1..Len(ret)}
                        = {s \in WindowStarts : HasInk(PySlice(text, s, s + chunk_size))}

\* A call has returned two chunks around a window of whitespace that it skipped.
C13_Witness ==
    /\ Len(results) >= 1
    /\ Len(results[1]) >= 2
    /\ \E s \in WindowStarts :
          /\ ~HasInk(PySlice(text, s, s + chunk_size))
          /\ results[1][1].start_idx < s
          /\ s < results[1][Len(results[1])].start_idx

(***************************************************************************)
(* Claims on the store: reset, persistence, reads                          *)
(***************************************************************************)
\* The reads that return rows, and all the reads.
RowReads ==
    {"get_entities_by_hyperedge", "get_hyperedges_by_entity", "get_chunks_by_entity",
     "get_entities_by_chunk", "find_related_entities", "search_vectors"}
ReadOps == RowReads \cup {"check_connection"}

NoNodes(d) ==
    d.entities = <<>> /\ d.hyperedges = <<>> /\ d.chunks = <<>> /\ d.rels = <<>>

\* Every read of the store d, with every argument, returns no row and does not raise.
AllReadsEmpty(d) ==
    /\ \A h \in {"h1", "h2", "h3"} : GetEntitiesByHyperedge(d, h) = <<>>
    /\ \A c \in {"c1", "c2", "c3"} : GetEntitiesByChunk(d, c) = <<>>
    /\ \A n \in {"A", "B", "C", "D"} :
          /\ GetHyperedgesByEntity(d, n, DefaultLimit) = <<>>
          /\ GetChunksByEntity(d, n) = <<>>
          /\ \A k \in 0..MaxDepth, tie \in TieOrders : FindRelatedEntities(d, n, k, tie) = <<>>
    /\ \A target \in {"Chunk", "Entity"} :
          /\ ~SearchVectorsRaises(d, target)
          /\ \A q \in {"v1", "v2"} : SearchVectors(d, q, 1, target) = <<>>

Mentions(node) == SeqToSet(DictGet(node, "chunk_ids", <<>>))

\* C15: a call that is not reset_db removes nothing: every entity, hyperedge and chunk
\* node is still there under its name or id, every participation link is still
\* there, and every entity still lists the chunks it listed.
C15_PersistsUntilReset ==
    lastCall.op \notin {"none", "reset_db"} =>
        /\ Len(pre.entities) <= Len(db.entities)
        /\ Len(pre.hyperedges) <= Len(db.hyperedges)
        /\ Len(pre.chunks) <= Len(db.chunks)
        /\ Len(pre.rels) <= Len(db.rels)
        /\ \A i \in 1..Len(pre.entities) :
              /\ Prop(db.entities[i], "name") = Prop(pre.entities[i], "name")
              /\ Mentions(pre.entities[i]) \subseteq Mentions(db.entities[i])
        /\ \A i \in 1..Len(pre.hyperedges) :
              Prop(db.hyperedges[i], "id") = Prop(pre.hyperedges[i], "id")
        /\ \A i \in 1..Len(pre.chunks) : Prop(db.chunks[i], "id") = Prop(pre.chunks[i], "id")
        /\ \A r \in 1..Len(pre.rels) : db.rels[r] = pre.rels[r]

\* A write has changed a store that held an entity with a chunk listed.
C15_Witness ==
    /\ lastCall.op \notin ReadOps \cup {"none", "reset_db"}
    /\ \E i \in 1..Len(pre.entities) : Mentions(pre.entities[i]) # {}
    /\ db # pre

\* C16: a call that is not reset_db leaves the content of every stored chunk as it
\* was, also batch_create_chunks called with the id of a stored chunk.
C16_ChunksImmutable ==
    lastCall.op \notin {"none", "reset_db"} =>
        \A i \in 1..Len(pre.chunks) :
            /\ i <= Len(db.chunks)
            /\ Prop(db.chunks[i], "content") = Prop(pre.chunks[i], "content")

EntityNamesOf(d) == {Prop(d.entities[i], "name") : i \in 1..Len(d.entities)}
HyperedgeIdsOf(d) == {Prop(d.hyperedges[i], "id") : i \in 1..Len(d.hyperedges)}
\* The chunk ids the store knows: of its chunk nodes, and listed by its entities.
ChunkIdsOf(d) ==
    {Prop(d.chunks[i], "id") : i \in 1..Len(d.chunks)}
    \cup UNION {Mentions(d.entities[i]) : i \in 1..Len(d.entities)}

\* The last call read by a name or id the store does not hold.
ReadOfUnknown ==
    \/ /\ lastCall.op \in {"get_chunks_by_entity", "get_hyperedges_by_entity",
                           "find_related_entities"}
       /\ lastCall.args[1] \notin EntityNamesOf(db)
    \/ lastCall.op = "get_entities_by_hyperedge" /\ lastCall.args[1] \notin HyperedgeIdsOf(db)
    \/ lastCall.op = "get_entities_by_chunk" /\ lastCall.args[1] \notin ChunkIdsOf(db)

C18_ReadsLeaveStore ==
    lastCall.op \in ReadOps => db = pre

\* A traversal returned rows.
C18_Witness ==
    /\ lastCall.op = "find_related_entities"
    /\ lastCall.ret # <<>>

(***************************************************************************)
(* models.Hyperedge: the number of entities                                *)
(***************************************************************************)
\* C19: every Hyperedge value that was constructed names at least two entities.
C19_AtLeastTwoEntities ==
    \A i \in 1..Len(hset) : Len(hset[i].entity_names) >= 2

(***************************************************************************)
(* Writes that fail partway. Each session.run is a transaction of its own, *)
(* committed when it returns: when a later statement raises, the call      *)
(* raises and what the earlier statements wrote stays.                     *)
(***************************************************************************)
\* create_hyperedge when its statement number k + 1 raises: the node statement, then
\* one link statement for each entity name.
CreateHyperedgePartial(d, hyperedge_id, entity_names, content, metadata, t, k) ==
    IF k = 0 THEN d
    ELSE FoldLeft(LAMBDA acc, entity_name : ConnectEntity(acc, entity_name, hyperedge_id),
                  CreateHyperedgeNode(d, hyperedge_id, content, metadata, t),
                  SubSeq(entity_names, 1, k - 1))

\* batch_create_hyperedges when its statement number k + 1 raises: the node statement,
\* then one link statement for each hyperedge.
BatchCreateHyperedgesPartial(d, hyperedges, t, k) ==
    IF k = 0 THEN d
    ELSE FoldLeft(BatchConnectHyperedge, BatchCreateHyperedgeNodes(d, hyperedges, t),
                  SubSeq(hyperedges, 1, k - 1))

\* A write call that raised after it changed the database.
Fail(op, args, d) ==
    /\ db' = d
    /\ pre' = db
    /\ now' = now + 1
    /\ lastCall' = Raised(op, args)
    /\ UNCHANGED <<chunkVars, hset>>

CreateHyperedgeFails ==
    \E a \in HyperedgeArgs : \E k \in 0..Len(a[2]) :
        /\ now < MaxOps
        /\ Fail("create_hyperedge", a,
                CreateHyperedgePartial(db, a[1], a[2], a[3], a[4], now + 1, k))

BatchCreateHyperedgesFails ==
    \E a \in HyperedgeBatches \ {<<>>} : \E k \in 0..Len(a) :
        /\ now < MaxOps
        /\ Fail("batch_create_hyperedges", a,
                BatchCreateHyperedgesPartial(db, a, now + 1, k))

NextFail == Next \/ CreateHyperedgeFails \/ BatchCreateHyperedgesFails

SpecFail == Init /\ [][NextFail]_vars

\* A hyperedge write has just raised.
HyperedgeWriteRaised ==
    lastCall.raised /\ lastCall.op \in {"create_hyperedge", "batch_create_hyperedges"}

\* The hyperedge ids the last call writes.
IdsWritten ==
    IF lastCall.op = "create_hyperedge" THEN {lastCall.args[1]}
    ELSE {lastCall.args[i].hyperedge_id : i \in 1..Len(lastCall.args)}

\* What a hyperedge node says, its timestamps aside.
HyperedgeData(h) ==
    [id |-> Prop(h, "id"), content |-> Prop(h, "content"), metadata |-> Prop(h, "metadata")]

\* What a failed hyperedge write leaves alone: the entities, the chunks, the links
\* there were, and the hyperedge nodes with the ids of `except` aside.
LeftAlone(except) ==
    /\ db.entities = pre.entities
    /\ db.chunks = pre.chunks
    /\ Len(pre.rels) <= Len(db.rels)
    /\ \A r \in 1..Len(pre.rels) : db.rels[r] = pre.rels[r]
    /\ Len(pre.hyperedges) <= Len(db.hyperedges)
    /\ \A i \in 1..Len(pre.hyperedges) :
          /\ Prop(db.hyperedges[i], "id") = Prop(pre.hyperedges[i], "id")
          /\ Prop(pre.hyperedges[i], "id") \notin except =>
                HyperedgeData(db.hyperedges[i]) = HyperedgeData(pre.hyperedges[i])

\* Running the failed call again, now to its end, leaves the graph that one run
\* without a failure leaves.
RetryConverges ==
    GraphOf(Apply(db, lastCall, now + 1)) = GraphOf(Apply(pre, lastCall, now + 1))

\* C20 as it is stated: when create_hyperedge or batch_create_hyperedges has raised
\* partway, every entity, chunk, hyperedge and link stored before is unchanged, and
\* the retry converges.
C20_PartialWriteLeavesAllStored ==
    HyperedgeWriteRaised => (LeftAlone({}) /\ RetryConverges)

\* C20, amended: when create_hyperedge or batch_create_hyperedges has raised partway,
\* every entity, chunk and link stored before is unchanged, and so is every hyperedge
\* but those the call itself upserts; and the retry converges, timestamps aside.
C20_PartialWriteConverges ==
    HyperedgeWriteRaised => (LeftAlone(IdsWritten) /\ RetryConverges)

\* create_hyperedge raised after it had linked an entity, with work left for the retry.
C20_Witness ==
    /\ HyperedgeWriteRaised
    /\ lastCall.op = "create_hyperedge"
    /\ Len(db.rels) > Len(pre.rels)
    /\ GraphOf(Apply(db, lastCall, now + 1)) # GraphOf(db)

(***************************************************************************)
(* Participation links, mentions and the frame of the entity upsert.       *)
(***************************************************************************)
\* The <<hyperedge id, entity name>> pairs the last call named, when it wrote hyperedges.
NamedIn ==
    CASE lastCall.op = "create_hyperedge" ->
            {<<lastCall.args[1], n>> : n \in SeqToSet(lastCall.args[2])}
      [] lastCall.op = "batch_create_hyperedges" ->
            UNION {{<<h.hyperedge_id, n>> : n \in SeqToSet(h.entity_names)} :
                   h \in SeqToSet(lastCall.args)}
      [] OTHER -> {}

\* An entity node named `name` has a PARTICIPATES_IN relationship to a hyperedge `id`.
Linked(d, name, id) ==
    \E r \in 1..Len(d.rels) :
        /\ Prop(d.entities[d.rels[r].e], "name") = name
        /\ Prop(d.hyperedges[d.rels[r].h], "id") = id

\* C21: when a call has written hyperedges, every entity it named for a hyperedge is
\* linked to that hyperedge once the entity is stored: at once when it was upserted
\* before the call, and after its upsert when it is upserted after the call.
C21_LinkedToEveryNamedEntity ==
    \A p \in NamedIn :
        Linked(CreateOrUpdateEntity(db, p[2], "PERSON", NULL, NULL, now + 1), p[2], p[1])

\* The <<chunk id, entity name>> pairs the last call linked, when it linked chunks.
LinksWritten ==
    CASE lastCall.op = "link_chunk_to_entities" ->
            {<<lastCall.args[1], n>> : n \in SeqToSet(lastCall.args[2])}
      [] lastCall.op = "batch_link_chunks_to_entities" ->
            UNION {{<<l.chunk_id, n>> : n \in SeqToSet(l.entity_names)} :
                   l \in SeqToSet(lastCall.args)}
      [] OTHER -> {}

\* C22: chunk c is among get_chunks_by_entity(e) exactly when e is among
\* get_entities_by_chunk(c), and no entity lists a chunk id twice.
C22_MentionsConsistent ==
    /\ \A n \in EntityNamesOf(db) \cup {"A", "B", "C"}, c \in ChunkIdsOf(db) \cup {"c1", "c2"} :
          c \in SeqToSet(GetChunksByEntity(db, n)) <=> n \in SeqToSet(GetEntitiesByChunk(db, c))
    /\ \A i \in 1..Len(db.entities) :
          Len(DictGet(db.entities[i], "chunk_ids", <<>>)) = Cardinality(Mentions(db.entities[i]))

\* A link was written a second time: to an entity that listed the chunk already, or
\* with the same name twice in one call, and some entity lists two chunks.
C22_Witness ==
    /\ lastCall.op \in {"link_chunk_to_entities", "batch_link_chunks_to_entities"}
    /\ \E i \in 1..Len(pre.entities) :
          /\ Mentions(pre.entities[i]) # {}
          /\ Cardinality(Mentions(db.entities[i])) = 2
          /\ \E c \in Mentions(pre.entities[i]) : <<c, pre.entities[i].name>> \in LinksWritten

\* The entity names the last call upserted.
UpsertedNames ==
    CASE lastCall.op = "create_or_update_entity" -> {lastCall.args[1]}
      [] lastCall.op = "batch_create_entities" -> {e.name : e \in SeqToSet(lastCall.args)}
      [] OTHER -> {}

\* The properties an entity upsert sets on a node it matched.
UpsertFields == {"type", "description", "embedding", "updated_at"}

\* A node without the properties an entity upsert sets.
Untouched(node) == [k \in DOMAIN node \ UpsertFields |-> node[k]]

\* C23: an entity upsert leaves the hyperedges, the chunks and the participation links
\* as they were, changes nothing of an entity it did not name, changes at most type,
\* description, embedding and updated_at of an entity it found, and gives the empty
\* chunk_ids list to the entities it creates.
C23_UpsertFrame ==
    lastCall.op \in {"create_or_update_entity", "batch_create_entities"} =>
        /\ db.hyperedges = pre.hyperedges
        /\ db.chunks = pre.chunks
        /\ db.rels = pre.rels
        /\ Len(pre.entities) <= Len(db.entities)
        /\ \A i \in 1..Len(pre.entities) :
              IF Prop(pre.entities[i], "name") \in UpsertedNames
              THEN Untouched(db.entities[i]) = Untouched(pre.entities[i])
              ELSE db.entities[i] = pre.entities[i]
        /\ \A i \in (Len(pre.entities) + 1)..Len(db.entities) :
              /\ Prop(db.entities[i], "name") \in UpsertedNames
              /\ Prop(db.entities[i], "chunk_ids") = <<>>

\* An entity that lists a chunk was upserted again, with another type.
C23_Witness ==
    /\ lastCall.op \in {"create_or_update_entity", "batch_create_entities"}
    /\ \E i \in 1..Len(pre.entities) :
          /\ Prop(pre.entities[i], "name") \in UpsertedNames
          /\ Mentions(pre.entities[i]) # {}
          /\ Prop(db.entities[i], "type") # Prop(pre.entities[i], "type")

\* C24: an entity upsert leaves an embedding on every entity that had one.
C24_EmbeddingKept ==
    lastCall.op \in {"create_or_update_entity", "batch_create_entities"} =>
        \A i \in 1..Len(pre.entities) :
            "embedding" \in DOMAIN pre.entities[i] =>
                /\ "embedding" \in DOMAIN db.entities[i]
                /\ Prop(pre.entities[i], "name") \in UpsertedNames
                   /\ lastCall.op = "create_or_update_entity" /\ lastCall.args[4] = NULL
                   => db.entities[i].embedding = pre.entities[i].embedding

\* C25: find_related_entities returns no entity twice and never the seed, and the
\* distance it gives for an entity is the length of the shortest path that reaches it.
C25_OncePerEntity ==
    lastCall.op = "find_related_entities" =>
        LET ret == lastCall.ret
            paths == RelatedPairs(db, lastCall.args[1], lastCall.args[2])
        IN  /\ \A i, j \in 1..Len(ret) : ret[i].name = ret[j].name => i = j
            /\ \A i \in 1..Len(ret) : ret[i].name # lastCall.args[1]
            /\ \A i \in 1..Len(ret) : \A q \in paths :
                  db.entities[q[2]].name = ret[i].name => ret[i].distance <= q[1]

\* The single-item operation of a batch write, called once per item of its list, in order.
Singly(d, call, t) ==
    CASE call.op = "batch_create_entities" ->
            FoldLeft(LAMBDA acc, e :
                         CreateOrUpdateEntity(acc, e.name, e.type,
                             DictGet(e, "description", NULL), DictGet(e, "vector", NULL), t),
                     d, call.args)
      [] call.op = "batch_create_hyperedges" ->
            FoldLeft(LAMBDA acc, h :
                         CreateHyperedge(acc, h.hyperedge_id, h.entity_names, h.content,
                             DictGet(h, "metadata", NULL), t),
                     d, call.args)
      [] call.op = "batch_link_chunks_to_entities" ->
            FoldLeft(LAMBDA acc, link :
                         LinkChunkToEntities(acc, link.chunk_id, link.entity_names),
                     d, call.args)

\* C26: a batch write of entities, hyperedges or chunk links leaves the graph that its
\* single-item operation leaves when called once per item of the list, in order.
C26_BatchIsSingles ==
    lastCall.op \in {"batch_create_entities", "batch_create_hyperedges",
                     "batch_link_chunks_to_entities"} =>
        GraphOf(db) = GraphOf(Singly(pre, lastCall, now))

(***************************************************************************)
(* Claims on the windows of chunk_text                                     *)
(***************************************************************************)
\* C27: when chunk_overlap < chunk_size, the windows start at 0 and every chunk_size -
\* chunk_overlap characters, each chunk_overlap before the end of the window before it;
\* the content of a returned chunk is the characters of the text from start_idx up to
\* end_idx or the end of the text, at most chunk_size of them; and every character of
\* the text that is no whitespace lies in the span of a returned chunk.
C27_WindowsCoverText ==
    chunk_overlap < chunk_size =>
        LET step == chunk_size - chunk_overlap
        IN  /\ pc = "loop" => start = chunk_id * step
            /\ \A r \in 1..Len(results) : \A i \in 1..Len(results[r]) :
                  LET c == results[r][i]
                  IN  /\ c.start_idx = c.chunk_index * step
                      /\ c.end_idx - chunk_overlap = (c.chunk_index + 1) * step
                      /\ Len(c.content) <= chunk_size
                      /\ Len(c.content) = Min(c.end_idx, Len(text)) - c.start_idx
                      /\ \A k \in 1..Len(c.content) : c.content[k] = text[c.start_idx + k]
            /\ \A r \in 1..Len(results) : \A p \in 1..Len(text) :
                  text[p] \notin Whitespace =>
                      \E i \in 1..Len(results[r]) :
                          results[r][i].start_idx < p /\ p <= results[r][i].end_idx

\* A call has returned several overlapping chunks of a text that holds whitespace.
C27_Witness ==
    /\ 0 < chunk_overlap /\ chunk_overlap < chunk_size
    /\ Len(results) >= 1
    /\ Len(results[1]) >= 2
    /\ \E p \in 1..Len(text) : text[p] \in Whitespace

\* C28: a chunk chunk_text returns ends within the text, its content is as long as its
\* span, and its span is not within the span of the chunk returned before it.
C28_WithinTextAndNew ==
    \A r \in 1..Len(results) : \A i \in 1..Len(results[r]) :
        LET c == results[r][i]
        IN  /\ c.end_idx <= Len(text)
            /\ Len(c.content) = c.end_idx - c.start_idx
            /\ i > 1 =>
                  ~(/\ results[r][i - 1].start_idx <= c.start_idx
                    /\ c.end_idx <= results[r][i - 1].end_idx)

\* C29: a call that links chunks to entity names returns without raising, creates no
\* entity, leaves the hyperedges, the chunks, the links and every entity it did not name
\* as they were, and adds each chunk to the list of every stored entity it names for it,
\* whether or not the other names it was given are stored.
C29_UnknownNameIsNoOp ==
    lastCall.op \in {"link_chunk_to_entities", "batch_link_chunks_to_entities"} =>
        /\ ~lastCall.raised
        /\ db.hyperedges = pre.hyperedges
        /\ db.chunks = pre.chunks
        /\ db.rels = pre.rels
        /\ db.indexes = pre.indexes
        /\ Len(db.entities) = Len(pre.entities)
        /\ \A i \in 1..Len(pre.entities) :
              LET named == {q[1] : q \in {l \in LinksWritten :
                                             l[2] = Prop(pre.entities[i], "name")}}
              IN  /\ Prop(db.entities[i], "name") = Prop(pre.entities[i], "name")
                  /\ Mentions(db.entities[i]) = Mentions(pre.entities[i]) \cup named
                  /\ named = {} => db.entities[i] = pre.entities[i]

\* A call named an entity that is not stored and one that is, and the stored one
\* lists a chunk it did not list before.
C29_Witness ==
    /\ lastCall.op \in {"link_chunk_to_entities", "batch_link_chunks_to_entities"}
    /\ \E l \in LinksWritten : l[2] \notin EntityNamesOf(pre)
    /\ \E i \in 1..Len(pre.entities) :
          \E l \in LinksWritten :
              /\ l[2] = Prop(pre.entities[i], "name")
              /\ l[1] \notin Mentions(pre.entities[i])
              /\ l[1] \in Mentions(db.entities[i])

====
